---------------------------- MODULE Spec2Model ----------------------------
(***************************************************************************)
(* Model of pre-commit-hooks-java:                                         *)
(*   unused_java_imports.py            (import scanner, fix rewriter)      *)
(*   check_java_package_statements.py  (package statement checker)         *)
(*                                                                         *)
(* Text is modelled at character level: a line is a sequence of one-       *)
(* character strings, terminated by "\n" as Python's file iteration        *)
(* delivers it.  Regular expressions are evaluated by explicit matchers    *)
(* that follow the backtracking order of Python's re module.               *)
(***************************************************************************)
EXTENDS Integers, Sequences, FiniteSets, TLC

(***************************************************************************)
(* Bounds of the explored input space.                                     *)
(***************************************************************************)
MaxLines == 3
MaxPathLen == 3
MaxMultiLines == 2

(***************************************************************************)
(* Character classes of Python's re for str patterns, restricted to ASCII. *)
(***************************************************************************)
WordChars ==
  { "a", "b", "c", "d", "e", "f", "g", "h", "i", "j", "k", "l", "m",
    "n", "o", "p", "q", "r", "s", "t", "u", "v", "w", "x", "y", "z",
    "A", "B", "C", "D", "E", "F", "G", "H", "I", "J", "K", "L", "M",
    "N", "O", "P", "Q", "R", "S", "T", "U", "V", "W", "X", "Y", "Z",
    "0", "1", "2", "3", "4", "5", "6", "7", "8", "9", "_" }

SpaceChars == { " ", "\t", "\n", "\r", "\f" }

(***************************************************************************)
(* String primitives.                                                      *)
(***************************************************************************)
\* s[p..] starts with lit (positions are 1-based)
HasLit(s, p, lit) ==
  /\ p >= 1
  /\ p + Len(lit) - 1 <= Len(s)
  /\ SubSeq(s, p, p + Len(lit) - 1) = lit

\* Python's `lit in s`
Contains(s, lit) == \E p \in 1..Len(s) : HasLit(s, p, lit)

\* greedy X* for a character class: the position after the longest run
RECURSIVE SkipWhile(_, _, _)
SkipWhile(cls, s, p) ==
  IF p <= Len(s) /\ s[p] \in cls THEN SkipWhile(cls, s, p + 1) ELSE p

\* str.replace(old, ""): removes the non-overlapping occurrences left to right
RECURSIVE Replace(_, _)
Replace(s, old) ==
  IF Len(old) = 0 \/ Len(s) < Len(old) THEN s
  ELSE IF HasLit(s, 1, old)
       THEN Replace(SubSeq(s, Len(old) + 1, Len(s)), old)
       ELSE <<s[1]>> \o Replace(Tail(s), old)

\* str.strip(): drops leading and trailing whitespace
RECURSIVE LStrip(_)
LStrip(s) ==
  IF Len(s) > 0 /\ s[1] \in SpaceChars THEN LStrip(Tail(s)) ELSE s

RECURSIVE RStrip(_)
RStrip(s) ==
  IF Len(s) > 0 /\ s[Len(s)] \in SpaceChars
  THEN RStrip(SubSeq(s, 1, Len(s) - 1)) ELSE s

Strip(s) == RStrip(LStrip(s))

\* position of the last "." of s, 0 if there is none
RECURSIVE LastDot(_, _)
LastDot(s, p) ==
  IF p = 0 THEN 0 ELSE IF s[p] = "." THEN p ELSE LastDot(s, p - 1)

\* str.rpartition(".")[2]
RPartitionTail(s) == SubSeq(s, LastDot(s, Len(s)) + 1, Len(s))

\* str.split(".")
RECURSIVE Split(_, _)
Split(s, cur) ==
  IF Len(s) = 0 THEN <<cur>>
  ELSE IF s[1] = "." THEN <<cur>> \o Split(Tail(s), <<>>)
       ELSE Split(Tail(s), Append(cur, s[1]))

\* ".".join(parts)
RECURSIVE Join(_)
Join(parts) ==
  IF Len(parts) = 0 THEN <<>>
  ELSE IF Len(parts) = 1 THEN parts[1]
       ELSE parts[1] \o <<".">> \o Join(Tail(parts))

(***************************************************************************)
(* Regular expressions.                                                    *)
(***************************************************************************)
NoMatch == [ok |-> FALSE, g0 |-> <<>>, static |-> <<>>, name |-> <<>>]

\* \w+\.[\w\.]*\w+\s*;  tried at position p.  The first \w+ is greedy and
\* must stop before a "."; [\w\.]* takes the longest run of word characters
\* and dots and gives characters back until \w+ and then \s*; succeed, so
\* the name end is the largest e in the run that follows a word character
\* and has \s*; behind it.  Returns <<name end, match end>> or <<0, 0>>.
NameThenSemicolon(s, p) ==
  LET w1 == SkipWhile(WordChars, s, p)
      r  == SkipWhile(WordChars \cup {"."}, s, w1 + 1)
      ends == { e \in (w1 + 2)..r :
                  /\ s[e - 1] \in WordChars
                  /\ LET q == SkipWhile(SpaceChars, s, e)
                     IN  q <= Len(s) /\ s[q] = ";" }
  IN  IF w1 > p /\ w1 <= Len(s) /\ s[w1] = "." /\ ends # {}
      THEN LET e == CHOOSE x \in ends : \A y \in ends : y <= x
           IN  <<e, SkipWhile(SpaceChars, s, e) + 1>>
      ELSE <<0, 0>>

KW_IMPORT == <<"i", "m", "p", "o", "r", "t">>
KW_STATIC == <<"s", "t", "a", "t", "i", "c">>
KW_PACKAGE == <<"p", "a", "c", "k", "a", "g", "e">>

\* IMPORT_PATTERN.match(line): anchored at the first character of the line
IMPORT_PATTERN(line) ==
  LET p1 == Len(KW_IMPORT) + 1
      p2 == SkipWhile(SpaceChars, line, p1)
      \* (?:static\s+)? is tried with the keyword first
      p3 == p2 + Len(KW_STATIC)
      p4 == SkipWhile(SpaceChars, line, p3)
      hasStatic == HasLit(line, p2, KW_STATIC) /\ p4 > p3
      withStatic == IF hasStatic THEN NameThenSemicolon(line, p4) ELSE <<0, 0>>
      without == NameThenSemicolon(line, p2)
  IN  IF ~(HasLit(line, 1, KW_IMPORT) /\ p2 > p1) THEN NoMatch
      ELSE IF withStatic[1] > 0
           THEN [ok |-> TRUE, g0 |-> SubSeq(line, 1, withStatic[2] - 1),
                 static |-> SubSeq(line, p2, p4 - 1),
                 name |-> SubSeq(line, p4, withStatic[1] - 1)]
      ELSE IF without[1] > 0
           THEN [ok |-> TRUE, g0 |-> SubSeq(line, 1, without[2] - 1),
                 static |-> <<>>,
                 name |-> SubSeq(line, p2, without[1] - 1)]
      ELSE NoMatch

\* PACKAGE_STATEMENT_PATTERN.match(line)
PACKAGE_STATEMENT_PATTERN(line) ==
  LET p1 == Len(KW_PACKAGE) + 1
      p2 == SkipWhile(SpaceChars, line, p1)
      m  == NameThenSemicolon(line, p2)
  IN  IF HasLit(line, 1, KW_PACKAGE) /\ p2 > p1 /\ m[1] > 0
      THEN [ok |-> TRUE, g0 |-> SubSeq(line, 1, m[2] - 1),
            static |-> <<>>, name |-> SubSeq(line, p2, m[1] - 1)]
      ELSE NoMatch

\* re.search(rf"\b{re.escape(identifier)}\b", line)
WordSearch(ident, line) ==
  \E p \in 1..Len(line) :
     /\ HasLit(line, p, ident)
     /\ Len(ident) > 0
     /\ (p = 1 \/ line[p - 1] \notin WordChars) = (line[p] \in WordChars)
     /\ LET q == p + Len(ident)
        IN  (q > Len(line) \/ line[q] \notin WordChars)
              = (line[q - 1] \in WordChars)

(***************************************************************************)
(* Input universe: the lines files are built from and the directory names  *)
(* paths are built from.                                                   *)
(***************************************************************************)
SP == <<" ">>
NL == <<"\n">>
COMMENT_OPEN == <<"/", "*">>
COMMENT_CLOSE == <<"*", "/">>

ImportAB == KW_IMPORT \o SP \o <<"a", ".", "B", ";">>
ImportCB == KW_IMPORT \o SP \o <<"c", ".", "B", ";">>
ImportStaticAD == KW_IMPORT \o SP \o KW_STATIC \o SP \o <<"a", ".", "D", ";">>

ImportLines ==
  { ImportAB \o NL,                                  \* import a.B;
    ImportCB \o NL,                                  \* import c.B;
    <<"B", " ", "x", ";">> \o NL,                    \* B x;
    COMMENT_OPEN \o NL,                              \* /*
    COMMENT_CLOSE \o NL,                             \* */
    ImportAB \o SP \o COMMENT_CLOSE \o NL,           \* import a.B; */
    SP \o ImportAB \o NL,                            \*  import a.B;
    ImportAB \o ImportStaticAD \o NL,                \* import a.B;import static a.D;
    ImportAB \o SP \o COMMENT_OPEN \o <<"B">> \o COMMENT_CLOSE \o NL,
                                                     \* import a.B; /*B*/
    <<"D", ".", "B", "B", ";">> \o NL }              \* D.BB;

\* lines of the files given to the rewriter
RewriteLines ==
  { NL,                                              \* (empty line)
    SP \o NL,                                        \* (one space)
    ImportAB \o NL,                                  \* import a.B;
    <<"B", " ", "x", ";">> \o NL,                    \* B x;
    ImportAB \o <<"/", "/">> \o ImportAB \o NL }     \* import a.B;//import a.B;

PackageAB == KW_PACKAGE \o SP \o <<"a", ".", "b", ";">>

PackageLines ==
  { PackageAB \o NL,                                           \* package a.b;
    KW_PACKAGE \o SP \o <<"b", ".", "a", ";">> \o NL,          \* package b.a;
    KW_PACKAGE \o SP \o <<"a", ";">> \o NL,                    \* package a;
    KW_PACKAGE \o SP \o <<"a", ".", "b", ".", "a", ";">> \o NL, \* package a.b.a;
    SP \o PackageAB \o NL,                                     \*  package a.b;
    COMMENT_OPEN \o NL,                                        \* /*
    COMMENT_CLOSE \o NL,                                       \* */
    PackageAB \o SP \o COMMENT_CLOSE \o NL }                   \* package a.b; */

DirNames == { <<"a">>, <<"b">> }

\* lines and directories of the files of an invocation on two files
MultiImportLines ==
  { ImportAB \o NL,                                  \* import a.B;
    <<"B", " ", "x", ";">> \o NL,                    \* B x;
    COMMENT_OPEN \o NL }                             \* /*
MultiPackageLines ==
  { PackageAB \o NL,                                 \* package a.b;
    KW_PACKAGE \o SP \o <<"b", ".", "a", ";">> \o NL,\* package b.a;
    COMMENT_OPEN \o NL }                             \* /*
MultiParts == { << <<"a">>, <<"b">> >>, << <<"b">> >> }       \* a/b, b

\* all sequences over S of length 0..n
SeqsUpTo(S, n) == UNION { [1..k -> S] : k \in 0..n }

(***************************************************************************)
(* State.                                                                  *)
(***************************************************************************)
VARIABLES
  prog,                 \* which entry point runs: "imports" or "package"
  files,                \* args.file: sequence of [parts, lines]
  fix,                  \* args.fix
  disk,                 \* current content of each file, as lines
  fi,                   \* index of `path` in args.file (1-based)
  pc,                   \* position of main
  lineno,               \* enumerate(fp) counter of the running loop (0-based)
  inside_comment,       \* inside_comment of the running scan
  unused_imports,       \* dict identifier -> JavaImport, in insertion order
  yielded,              \* what find_unnecessary_imports has yielded so far
  unnecessary_imports,  \* main's list(find_unnecessary_imports(path))
  new_lines,            \* what lines_with_unnecessary_imports_removed yielded
  package_statement,    \* main's find_java_package_statement(path)
  result,               \* package main's result
  stdout,               \* what main printed
  written,              \* the files main opened with mode "w+", in order
  returned              \* what main returned; -1 while it runs

vars == << prog, files, fix, disk, fi, pc, lineno, inside_comment,
           unused_imports, yielded, unnecessary_imports, new_lines,
           package_statement, result, stdout, written, returned >>

(***************************************************************************)
(* unused_java_imports.py                                                  *)
(***************************************************************************)
JavaImport(match, ln, reason) ==
  [match |-> match, lineno |-> ln, removal_reason |-> reason]

name(x) == x.match.name
is_static(java_import) == java_import.match.static # <<>>
identifier(java_import) == RPartitionTail(name(java_import))

\* CommentFilter with the two tests in the other order: a line that has both
\* markers ends inside
CommentFilter_CloseFirst(inside, line) ==
  LET closed == IF Contains(line, COMMENT_CLOSE) THEN FALSE ELSE inside
  IN  IF Contains(line, COMMENT_OPEN) THEN TRUE ELSE closed

\* the two containment tests that open every loop body of both scanners
CommentFilter(inside, line) ==
  LET opened == IF Contains(line, COMMENT_OPEN) THEN TRUE ELSE inside
  IN  IF Contains(line, COMMENT_CLOSE) THEN FALSE ELSE opened

\* HasLive with the entries compared by their dotted name, not by identifier
HasLive_ByName(table, ident) ==
  \E k \in 1..Len(table) : table[k].match.name = ident

\* unused_imports.get(identifier) is not None
HasLive(table, ident) ==
  \E k \in 1..Len(table) : identifier(table[k]) = ident

\* DeleteUsed with the test inverted: deletes the entries the line does not use
DeleteUsed_Inverted(table, line) ==
  SelectSeq(table, LAMBDA e : WordSearch(RPartitionTail(e.match.name), line))

\* DeleteUsed without the word boundaries: `identifier in line`
DeleteUsed_Substring(table, line) ==
  SelectSeq(table, LAMBDA e : ~Contains(line, RPartitionTail(e.match.name)))

\* the loop over unused_imports.copy().items() deleting the used entries
DeleteUsed(table, line) ==
  SelectSeq(table, LAMBDA e : ~WordSearch(identifier(e), line))

\* ScanLine without `if inside_comment: continue`: the comment state is
\* kept up to date but no line is skipped
ScanLine_NoSkip(st, ln, line) ==
  LET inside == CommentFilter(st.inside_comment, line)
      match == IMPORT_PATTERN(line)
      ident == RPartitionTail(match.name)
  IN  IF match.ok
      THEN IF HasLive(st.unused_imports, ident)
           THEN [inside_comment |-> inside,
                 unused_imports |-> st.unused_imports,
                 yielded |-> Append(st.yielded,
                                    JavaImport(match, ln, "DUPLICATE"))]
           ELSE [inside_comment |-> inside,
                 unused_imports |-> Append(st.unused_imports,
                                           JavaImport(match, ln, "UNUSED")),
                 yielded |-> st.yielded]
      ELSE [inside_comment |-> inside,
            unused_imports |-> DeleteUsed(st.unused_imports, line),
            yielded |-> st.yielded]

\* ScanLine that stores the duplicate in the table, in place of the entry
\* it duplicates, before yielding it
ScanLine_Overwrite(st, ln, line) ==
  LET inside == CommentFilter(st.inside_comment, line)
      match == IMPORT_PATTERN(line)
      ident == RPartitionTail(match.name)
      dup == JavaImport(match, ln, "DUPLICATE")
  IN  IF inside
      THEN [st EXCEPT !.inside_comment = inside]
      ELSE IF match.ok
      THEN IF HasLive(st.unused_imports, ident)
           THEN [inside_comment |-> inside,
                 unused_imports |->
                   [k \in 1..Len(st.unused_imports) |->
                      IF RPartitionTail(st.unused_imports[k].match.name) = ident
                      THEN dup ELSE st.unused_imports[k]],
                 yielded |-> Append(st.yielded, dup)]
           ELSE [inside_comment |-> inside,
                 unused_imports |-> Append(st.unused_imports,
                                           JavaImport(match, ln, "UNUSED")),
                 yielded |-> st.yielded]
      ELSE [inside_comment |-> inside,
            unused_imports |-> DeleteUsed(st.unused_imports, line),
            yielded |-> st.yielded]

\* ScanLine without the `continue` that ends the import branch: the usage
\* test runs on the import line as well
ScanLine_NoContinue(st, ln, line) ==
  LET inside == CommentFilter(st.inside_comment, line)
      match == IMPORT_PATTERN(line)
      ident == RPartitionTail(match.name)
  IN  IF inside
      THEN [st EXCEPT !.inside_comment = inside]
      ELSE IF match.ok /\ HasLive(st.unused_imports, ident)
      THEN [inside_comment |-> inside,
            unused_imports |-> st.unused_imports,
            yielded |-> Append(st.yielded,
                               JavaImport(match, ln, "DUPLICATE"))]
      ELSE [inside_comment |-> inside,
            unused_imports |->
              DeleteUsed(IF match.ok
                         THEN Append(st.unused_imports,
                                     JavaImport(match, ln, "UNUSED"))
                         ELSE st.unused_imports, line),
            yielded |-> st.yielded]

\* one iteration of the loop of find_unnecessary_imports over
\* st = [inside_comment, unused_imports, yielded]
ScanLine(st, ln, line) ==
  LET inside == CommentFilter(st.inside_comment, line)
      match == IMPORT_PATTERN(line)
      java_import == JavaImport(match, ln, "UNUSED")
  IN  IF inside
      THEN [st EXCEPT !.inside_comment = inside]
      ELSE IF match.ok
      THEN IF HasLive(st.unused_imports, identifier(java_import))
           THEN [inside_comment |-> inside,
                 unused_imports |-> st.unused_imports,
                 yielded |-> Append(st.yielded,
                                    JavaImport(match, ln, "DUPLICATE"))]
           ELSE [inside_comment |-> inside,
                 unused_imports |-> Append(st.unused_imports, java_import),
                 yielded |-> st.yielded]
      ELSE [inside_comment |-> inside,
            unused_imports |-> DeleteUsed(st.unused_imports, line),
            yielded |-> st.yielded]

ScanStart == [inside_comment |-> FALSE, unused_imports |-> <<>>,
              yielded |-> <<>>]

\* the whole generator, materialized: list(find_unnecessary_imports(path))
RECURSIVE ScanFrom(_, _, _)
ScanFrom(st, ln, lines) ==
  IF ln >= Len(lines) THEN st.yielded \o st.unused_imports
  ELSE ScanFrom(ScanLine(st, ln, lines[ln + 1]), ln + 1, lines)

find_unnecessary_imports(lines) == ScanFrom(ScanStart, 0, lines)

\* imports_by_lines.get(lineno, [])
imports_by_lines(imports, ln) ==
  SelectSeq(imports, LAMBDA x : x.lineno = ln)

\* the loop `line = line.replace(java_import.match.group(0), "")`
RECURSIVE RemoveImports(_, _)
RemoveImports(line, imports) ==
  IF Len(imports) = 0 THEN line
  ELSE RemoveImports(Replace(line, imports[1].match.g0), Tail(imports))

\* KeepLine that tests only the text: `if line.strip()`
KeepLine_AlwaysStrip(imports_in_current_line, line) == Strip(line) # <<>>

\* KeepLine without the strip(): `if not imports_in_current_line or line`
KeepLine_NoStrip(imports_in_current_line, line) ==
  Len(imports_in_current_line) = 0 \/ line # <<>>

\* `if not imports_in_current_line or line.strip()`
KeepLine(imports_in_current_line, line) ==
  Len(imports_in_current_line) = 0 \/ Strip(line) # <<>>

\* ShouldFix without the test of the findings: `if args.fix:`
ShouldFix_IgnoreFindings(imports, fix_flag) == fix_flag

\* main's `if unnecessary_imports and args.fix`
ShouldFix(imports, fix_flag) == imports # <<>> /\ fix_flag

\* one iteration of the loop of lines_with_unnecessary_imports_removed:
\* the lines it yields for line number ln
RewriteLine(imports, ln, line) ==
  LET imports_in_current_line == imports_by_lines(imports, ln)
      rest == RemoveImports(line, imports_in_current_line)
  IN  IF KeepLine(imports_in_current_line, rest) THEN <<rest>> ELSE <<>>

(***************************************************************************)
(* check_java_package_statements.py                                        *)
(***************************************************************************)
JavaPackageStatement(match, ln) == [match |-> match, lineno |-> ln]
None == [match |-> NoMatch, lineno |-> 0 - 1]
components(package_stmt) == Split(name(package_stmt), <<>>)

\* TruncatePath slicing from the wrong end: path_components[:len(...)]
TruncatePath_Head(path_components, package_components) ==
  IF Len(path_components) > Len(package_components)
  THEN SubSeq(path_components, 1, Len(package_components))
  ELSE path_components

\* path_components[-len(package_components):] when the path is longer
TruncatePath(path_components, package_components) ==
  IF Len(path_components) > Len(package_components)
  THEN SubSeq(path_components,
              Len(path_components) - Len(package_components) + 1,
              Len(path_components))
  ELSE path_components

\* CheckFile without the `continue` after the missing-statement message: the
\* comparison runs as well, on a package name with no text
CheckFile_NoContinue(path, package_stmt, parts) ==
  LET package_components == Split(package_stmt.match.name, <<>>)
      path_components ==
        IF Len(parts) > Len(package_components)
        THEN SubSeq(parts, Len(parts) - Len(package_components) + 1,
                    Len(parts))
        ELSE parts
  IN  (IF package_stmt.match.ok THEN <<>>
       ELSE << [path |-> path, kind |-> "missing"] >>)
      \o (IF package_components # path_components
          THEN << [path |-> path, kind |-> "mismatch",
                   lineno |-> package_stmt.lineno,
                   expected |-> Join(path_components),
                   actual |-> package_stmt.match.name] >>
          ELSE <<>>)

\* what one iteration of main's loop prints for `path` (every print is
\* followed by `result = 1`): the missing-statement message and `continue`,
\* or the comparison of the components and the mismatch message
CheckFile(path, package_stmt, parts) ==
  IF package_stmt = None
  THEN << [path |-> path, kind |-> "missing"] >>
  ELSE LET package_components == components(package_stmt)
           path_components == TruncatePath(parts, package_components)
       IN  IF package_components # path_components
           THEN << [path |-> path, kind |-> "mismatch",
                    lineno |-> package_stmt.lineno,
                    expected |-> Join(path_components),
                    actual |-> name(package_stmt)] >>
           ELSE <<>>

\* find_java_package_statement from line i on, with the comment state inside
RECURSIVE FindFrom(_, _, _)
FindFrom(lines, i, inside) ==
  IF i > Len(lines) THEN None
  ELSE LET inside_now == CommentFilter(inside, lines[i])
           match == PACKAGE_STATEMENT_PATTERN(lines[i])
       IN  IF ~inside_now /\ match.ok
           THEN JavaPackageStatement(match, i - 1)
           ELSE FindFrom(lines, i + 1, inside_now)

\* find_java_package_statement(path) for a file with these lines
find_java_package_statement(lines) == FindFrom(lines, 1, FALSE)

(***************************************************************************)
(* Initial states: one invocation of either entry point.                   *)
(***************************************************************************)
InitLocals ==
  /\ fi = 1
  /\ lineno = 0
  /\ inside_comment = FALSE
  /\ unused_imports = <<>>
  /\ yielded = <<>>
  /\ unnecessary_imports = <<>>
  /\ new_lines = <<>>
  /\ package_statement = None
  /\ result = 0
  /\ stdout = <<>>
  /\ written = <<>>
  /\ returned = 0 - 1

InitImports ==
  /\ prog = "imports"
  /\ \E ls \in SeqsUpTo(ImportLines, MaxLines) :
        files = << [parts |-> <<>>, lines |-> ls] >>
  /\ fix \in BOOLEAN
  /\ disk = [k \in 1..Len(files) |-> files[k].lines]
  /\ pc = "scan"
  /\ InitLocals

InitRewrite ==
  /\ prog = "imports"
  /\ \E ls \in SeqsUpTo(RewriteLines, MaxLines) :
        files = << [parts |-> <<>>, lines |-> ls] >>
  /\ fix \in BOOLEAN
  /\ disk = [k \in 1..Len(files) |-> files[k].lines]
  /\ pc = "scan"
  /\ InitLocals

InitPackage ==
  /\ prog = "package"
  /\ \E ls \in SeqsUpTo(PackageLines, MaxLines) :
     \E ps \in SeqsUpTo(DirNames, MaxPathLen) :
        files = << [parts |-> ps, lines |-> ls] >>
  /\ fix = FALSE
  /\ disk = [k \in 1..Len(files) |-> files[k].lines]
  /\ pc = "find"
  /\ InitLocals

\* an invocation of either entry point on two files
InitMulti ==
  /\ \/ /\ prog = "imports"
        /\ \E l1, l2 \in SeqsUpTo(MultiImportLines, MaxMultiLines) :
              files = << [parts |-> <<>>, lines |-> l1],
                         [parts |-> <<>>, lines |-> l2] >>
        /\ fix \in BOOLEAN
        /\ pc = "scan"
     \/ /\ prog = "package"
        /\ \E l1, l2 \in SeqsUpTo(MultiPackageLines, MaxMultiLines) :
           \E p1, p2 \in MultiParts :
              files = << [parts |-> p1, lines |-> l1],
                         [parts |-> p2, lines |-> l2] >>
        /\ fix = FALSE
        /\ pc = "find"
  /\ disk = [k \in 1..Len(files) |-> files[k].lines]
  /\ InitLocals

Init == InitImports \/ InitPackage

(***************************************************************************)
(* Actions.                                                                *)
(***************************************************************************)
\* NextPath with the comment state and the import table kept from the file
\* before, as if they were set once before the loop over the files
NextPath_StateKept(first) ==
  /\ fi' = fi + 1
  /\ pc' = IF fi < Len(files) THEN first ELSE "return"
  /\ lineno' = 0
  /\ yielded' = <<>>
  /\ UNCHANGED << inside_comment, unused_imports >>

\* `for path in args.file:` advances to the next file or leaves the loop;
\* the scan it then calls starts with fresh locals
NextPath(first) ==
  /\ fi' = fi + 1
  /\ pc' = IF fi < Len(files) THEN first ELSE "return"
  /\ lineno' = 0
  /\ inside_comment' = FALSE
  /\ unused_imports' = <<>>
  /\ yielded' = <<>>

\* find_unnecessary_imports: one line of the file
find_unnecessary_imports_line ==
  /\ prog = "imports" /\ pc = "scan"
  /\ lineno < Len(disk[fi])
  /\ LET st == ScanLine([inside_comment |-> inside_comment,
                         unused_imports |-> unused_imports,
                         yielded |-> yielded],
                        lineno, disk[fi][lineno + 1])
     IN  /\ inside_comment' = st.inside_comment
         /\ unused_imports' = st.unused_imports
         /\ yielded' = st.yielded
  /\ lineno' = lineno + 1
  /\ UNCHANGED << prog, returned, files, fix, disk, written, fi, pc,
                  unnecessary_imports, new_lines, package_statement, result,
                  stdout >>

\* find_unnecessary_imports: end of file, `yield from unused_imports.values()`
find_unnecessary_imports_end ==
  /\ prog = "imports" /\ pc = "scan"
  /\ lineno = Len(disk[fi])
  /\ unnecessary_imports' = yielded \o unused_imports
  /\ pc' = "print"
  /\ UNCHANGED << prog, returned, files, fix, disk, written, fi, lineno,
                  inside_comment, unused_imports, yielded, new_lines,
                  package_statement, result, stdout >>

\* main: print every finding, then decide whether to rewrite
main_print ==
  /\ prog = "imports" /\ pc = "print"
  /\ stdout' = stdout \o
       [k \in 1..Len(unnecessary_imports) |->
          [path |-> fi,
           lineno |-> unnecessary_imports[k].lineno,
           removal_reason |->
             IF unnecessary_imports[k].removal_reason = "UNUSED"
             THEN "Unused" ELSE "Duplicate",
           import_type |->
             IF is_static(unnecessary_imports[k])
             THEN "static import" ELSE "import",
           name |-> name(unnecessary_imports[k])]]
  /\ IF ShouldFix(unnecessary_imports, fix)
     THEN /\ pc' = "rewrite"
          /\ lineno' = 0
          /\ new_lines' = <<>>
          /\ UNCHANGED << fi, inside_comment, unused_imports, yielded >>
     ELSE /\ NextPath("scan")
          /\ UNCHANGED new_lines
  /\ UNCHANGED << prog, returned, files, fix, disk, written,
                  unnecessary_imports, package_statement, result >>

\* lines_with_unnecessary_imports_removed: one line of the file
lines_with_unnecessary_imports_removed_line ==
  /\ prog = "imports" /\ pc = "rewrite"
  /\ lineno < Len(disk[fi])
  /\ new_lines' = new_lines \o
       RewriteLine(unnecessary_imports, lineno, disk[fi][lineno + 1])
  /\ lineno' = lineno + 1
  /\ UNCHANGED << prog, returned, files, fix, disk, written, fi, pc,
                  inside_comment, unused_imports, yielded,
                  unnecessary_imports, package_statement, result, stdout >>

\* main: the new lines are complete; open the file "w+" and write them
main_write ==
  /\ prog = "imports" /\ pc = "rewrite"
  /\ lineno = Len(disk[fi])
  /\ written' = Append(written, fi)
  /\ disk' = [disk EXCEPT ![fi] = new_lines]
  /\ NextPath("scan")
  /\ UNCHANGED << prog, returned, files, fix, unnecessary_imports,
                  new_lines, package_statement, result, stdout >>

\* main: `return 0`
main_return_imports ==
  /\ prog = "imports" /\ pc = "return"
  /\ returned' = 0
  /\ pc' = "done"
  /\ UNCHANGED << prog, files, fix, disk, written, fi, lineno,
                  inside_comment, unused_imports, yielded,
                  unnecessary_imports, new_lines, package_statement, result,
                  stdout >>

\* find_java_package_statement: one line of the file
find_java_package_statement_line ==
  /\ prog = "package" /\ pc = "find"
  /\ lineno < Len(disk[fi])
  /\ LET line == disk[fi][lineno + 1]
         inside == CommentFilter(inside_comment, line)
         match == PACKAGE_STATEMENT_PATTERN(line)
     IN  /\ inside_comment' = inside
         /\ IF ~inside /\ match.ok
            THEN /\ package_statement' = JavaPackageStatement(match, lineno)
                 /\ pc' = "check"
                 /\ UNCHANGED lineno
            ELSE /\ lineno' = lineno + 1
                 /\ UNCHANGED << package_statement, pc >>
  /\ UNCHANGED << prog, returned, files, fix, disk, written, fi,
                  unused_imports, yielded, unnecessary_imports, new_lines,
                  result, stdout >>

\* find_java_package_statement: end of file, `return None`
find_java_package_statement_end ==
  /\ prog = "package" /\ pc = "find"
  /\ lineno = Len(disk[fi])
  /\ package_statement' = None
  /\ pc' = "check"
  /\ UNCHANGED << prog, returned, files, fix, disk, written, fi, lineno,
                  inside_comment, unused_imports, yielded,
                  unnecessary_imports, new_lines, result, stdout >>

\* main: the body of the loop after find_java_package_statement returned
main_check ==
  /\ prog = "package" /\ pc = "check"
  /\ LET printed == CheckFile(fi, package_statement, files[fi].parts)
     IN  /\ stdout' = stdout \o printed
         /\ result' = IF printed # <<>> THEN 1 ELSE result
  /\ NextPath("find")
  /\ UNCHANGED << prog, returned, files, fix, disk, written,
                  unnecessary_imports, new_lines, package_statement >>

\* main: `return result`
main_return_package ==
  /\ prog = "package" /\ pc = "return"
  /\ returned' = result
  /\ pc' = "done"
  /\ UNCHANGED << prog, files, fix, disk, written, fi, lineno,
                  inside_comment, unused_imports, yielded,
                  unnecessary_imports, new_lines, package_statement, result,
                  stdout >>

NextImports ==
  \/ find_unnecessary_imports_line
  \/ find_unnecessary_imports_end
  \/ main_print
  \/ lines_with_unnecessary_imports_removed_line
  \/ main_write
  \/ main_return_imports

NextPackage ==
  \/ find_java_package_statement_line
  \/ find_java_package_statement_end
  \/ main_check
  \/ main_return_package

Next == NextImports \/ NextPackage

Spec == Init /\ [][Next]_vars
SpecImports == InitImports /\ [][NextImports]_vars
SpecPackage == InitPackage /\ [][NextPackage]_vars
SpecRewrite == InitRewrite /\ [][NextImports]_vars
SpecMulti == InitMulti /\ [][Next]_vars

(***************************************************************************)
(* Vocabulary of the properties.  A specification runs main on one file,   *)
(* files[1]; line numbers i, j below are 1-based positions in it.          *)
(***************************************************************************)
TheLines == files[1].lines

\* list(find_unnecessary_imports(path)) is complete
ScanDone == prog = "imports" /\ pc # "scan"

\* the comment state the scanner holds when it tests line i for skipping
RECURSIVE InsideAfter(_, _)
InsideAfter(lines, i) ==
  IF i = 0 THEN FALSE ELSE CommentFilter(InsideAfter(lines, i - 1), lines[i])

Skipped(i) == InsideAfter(TheLines, i)

\* line i is read as an import declaration by the scanner
IsImportLine(i) == ~Skipped(i) /\ IMPORT_PATTERN(TheLines[i]).ok
IdentAt(i) == RPartitionTail(IMPORT_PATTERN(TheLines[i]).name)

\* line j is read as an ordinary line and has ident as a whole word
IsUseLine(j, ident) ==
  /\ ~Skipped(j)
  /\ ~IMPORT_PATTERN(TheLines[j]).ok
  /\ WordSearch(ident, TheLines[j])

\* the findings reported at line i
FindingsAt(i) == SelectSeq(unnecessary_imports, LAMBDA f : f.lineno = i - 1)
ReasonsAt(i) ==
  { unnecessary_imports[k].removal_reason :
      k \in { n \in 1..Len(unnecessary_imports) :
                unnecessary_imports[n].lineno = i - 1 } }

FindingsFor(ident) ==
  SelectSeq(unnecessary_imports,
            LAMBDA f : RPartitionTail(f.match.name) = ident)

(***************************************************************************)
(* C1                                                                      *)
(***************************************************************************)
\* C1 as stated: a recognized import whose identifier occurs as a whole
\* word in some later line yields no finding at all for that identifier.
C1_AnyLaterOccurrence ==
  ScanDone =>
    \A i \in 1..Len(TheLines) :
      (/\ IsImportLine(i)
       /\ \E j \in (i + 1)..Len(TheLines) : WordSearch(IdentAt(i), TheLines[j]))
      => FindingsFor(IdentAt(i)) = <<>>

\* C1 amended: a recognized import whose identifier occurs as a whole word
\* in a later line that is outside block comments and is not itself an
\* import line is never reported UNUSED; if it is the only recognized import
\* of its identifier in the file, the identifier has no finding at all.
C1_UsedLaterNotReported ==
  ScanDone =>
    \A i \in 1..Len(TheLines) :
      (/\ IsImportLine(i)
       /\ \E j \in (i + 1)..Len(TheLines) : IsUseLine(j, IdentAt(i)))
      => /\ "UNUSED" \notin ReasonsAt(i)
         /\ (\A k \in 1..Len(TheLines) :
               (IsImportLine(k) /\ IdentAt(k) = IdentAt(i)) => k = i)
            => FindingsFor(IdentAt(i)) = <<>>

\* an import followed by a use of its identifier, scanned, nothing reported
C1_Witness ==
  /\ ScanDone
  /\ unnecessary_imports = <<>>
  /\ \E i \in 1..Len(TheLines) :
        /\ IsImportLine(i)
        /\ \E j \in (i + 1)..Len(TheLines) : IsUseLine(j, IdentAt(i))

(***************************************************************************)
(* C2                                                                      *)
(***************************************************************************)
\* C2 as stated: two import lines with the same identifier, whatever the
\* other lines are, give exactly one DUPLICATE finding, on the second, and
\* no finding on the first.
C2_AlwaysOneDuplicate ==
  ScanDone =>
    \A i, j \in 1..Len(TheLines) :
      (/\ i < j
       /\ IsImportLine(i) /\ IsImportLine(j)
       /\ IdentAt(i) = IdentAt(j)
       /\ \A k \in 1..Len(TheLines) :
            (IsImportLine(k) /\ IdentAt(k) = IdentAt(i)) => k \in {i, j})
      => /\ FindingsAt(i) = <<>>
         /\ Len(FindingsAt(j)) = 1
         /\ ReasonsAt(j) = {"DUPLICATE"}

\* C2 amended: when the first is the file's first recognized import of the
\* identifier and no line between the two uses the identifier (outside
\* comments, not an import line), the second gets exactly one finding, a
\* DUPLICATE; the first gets no DUPLICATE, and gets one UNUSED finding
\* exactly when no later use line exists.
C2_DuplicateWhileLive ==
  ScanDone =>
    \A i, j \in 1..Len(TheLines) :
      (/\ i < j
       /\ IsImportLine(i) /\ IsImportLine(j)
       /\ IdentAt(i) = IdentAt(j)
       /\ \A k \in 1..(i - 1) : ~(IsImportLine(k) /\ IdentAt(k) = IdentAt(i))
       /\ \A k \in (i + 1)..(j - 1) : ~IsUseLine(k, IdentAt(i)))
      => /\ Len(FindingsAt(j)) = 1
         /\ ReasonsAt(j) = {"DUPLICATE"}
         /\ "DUPLICATE" \notin ReasonsAt(i)
         /\ Len(FindingsAt(i)) =
              IF \E k \in (i + 1)..Len(TheLines) : IsUseLine(k, IdentAt(i))
              THEN 0 ELSE 1

\* import a.B; import c.B; then a use of B: only the second is reported
C2_Witness ==
  /\ ScanDone
  /\ \E i, j \in 1..Len(TheLines) :
        /\ i < j
        /\ IsImportLine(i) /\ IsImportLine(j)
        /\ IdentAt(i) = IdentAt(j)
        /\ IMPORT_PATTERN(TheLines[i]).name # IMPORT_PATTERN(TheLines[j]).name
        /\ \E k \in (j + 1)..Len(TheLines) : IsUseLine(k, IdentAt(i))
        /\ Len(unnecessary_imports) = 1
        /\ unnecessary_imports[1].lineno = j - 1
        /\ unnecessary_imports[1].removal_reason = "DUPLICATE"

(***************************************************************************)
(* C3                                                                      *)
(***************************************************************************)
\* Java's own reading of block comments, character by character: whether
\* position `stop` of s lies inside a comment when position p is in state
\* `inside`
RECURSIVE LexScan(_, _, _, _)
LexScan(s, p, stop, inside) ==
  IF p >= stop THEN inside
  ELSE IF ~inside /\ HasLit(s, p, COMMENT_OPEN)
       THEN LexScan(s, p + 2, stop, TRUE)
  ELSE IF inside /\ HasLit(s, p, COMMENT_CLOSE)
       THEN LexScan(s, p + 2, stop, FALSE)
  ELSE LexScan(s, p + 1, stop, inside)

\* whether the first character of line i lies inside a block comment
RECURSIVE LexInsideAtStart(_, _)
LexInsideAtStart(lines, i) ==
  IF i = 1 THEN FALSE
  ELSE LexScan(lines[i - 1], 1, Len(lines[i - 1]) + 1,
               LexInsideAtStart(lines, i - 1))

\* an import statement starts at position p of line i, inside a comment
ImportInComment(i, p) ==
  /\ IMPORT_PATTERN(SubSeq(TheLines[i], p, Len(TheLines[i]))).ok
  /\ LexScan(TheLines[i], 1, p, LexInsideAtStart(TheLines, i))

\* C3: an import statement whose text lies inside a block comment (on its
\* opening line, an interior line or its closing line before the closing
\* marker) yields no finding at its line for that statement.
C3_NoFindingInsideComment ==
  ScanDone =>
    \A i \in 1..Len(TheLines) : \A p \in 1..Len(TheLines[i]) :
      ImportInComment(i, p) =>
        ~\E k \in 1..Len(unnecessary_imports) :
            /\ unnecessary_imports[k].lineno = i - 1
            /\ HasLit(TheLines[i], p, unnecessary_imports[k].match.g0)

(***************************************************************************)
(* C4                                                                      *)
(***************************************************************************)
\* the line the running loop has just finished with
JustRead == TheLines[lineno]
HasClose(line) == Contains(line, COMMENT_CLOSE)

\* the import scanner has just taken line number ln as an import declaration
JustRecognized(ln) ==
  \/ yielded # <<>> /\ yielded[Len(yielded)].lineno = ln
  \/ unused_imports # <<>> /\ unused_imports[Len(unused_imports)].lineno = ln

IsIndentedImport(i) ==
  /\ TheLines[i][1] \in SpaceChars
  /\ IMPORT_PATTERN(LStrip(TheLines[i])).ok

\* C5: an indented import line outside any comment whose identifier is on
\* no later line yields exactly one finding at its line, an UNUSED one, and
\* the file written in fix mode does not have the line any more.
C5_IndentedImportReportedAndRemoved ==
  \A i \in 1..Len(TheLines) :
    (/\ IsIndentedImport(i)
     /\ ~Skipped(i) /\ ~LexInsideAtStart(TheLines, i)
     /\ \A j \in (i + 1)..Len(TheLines) :
          ~WordSearch(RPartitionTail(IMPORT_PATTERN(LStrip(TheLines[i])).name),
                      TheLines[j]))
    => /\ ScanDone => /\ Len(FindingsAt(i)) = 1
                      /\ ReasonsAt(i) = {"UNUSED"}
       /\ (prog = "imports" /\ pc = "done" /\ fix)
            => \A k \in 1..Len(disk[1]) : disk[1][k] # TheLines[i]

(***************************************************************************)
(* C6                                                                      *)
(***************************************************************************)
\* main has rewritten the file in fix mode
FileFixed ==
  prog = "imports" /\ pc = "done" /\ fix /\ unnecessary_imports # <<>>

\* C6: once main has rewritten a file from the full list of its findings,
\* a scan of the rewritten file yields no finding.
C6_FixIsFixedPoint ==
  FileFixed => find_unnecessary_imports(disk[1]) = <<>>

(***************************************************************************)
(* C7                                                                      *)
(***************************************************************************)
Blank(s) == \A k \in 1..Len(s) : s[k] \in SpaceChars

\* line i with the matched text of its findings removed
Remainder(i) == RemoveImports(TheLines[i], FindingsAt(i))
Flagged(i) == FindingsAt(i) # <<>>
Dropped(i) == Flagged(i) /\ Blank(Remainder(i))

\* C7: the rewriter drops a flagged line if and only if what remains of it
\* after the removal of its findings' matched text is empty or whitespace;
\* a flagged line with other content left is emitted (with that content).
\* Stated at every position of the rewriter's loop: the number of lines
\* emitted so far is the number of lines read that are not to be dropped,
\* and a flagged line just read that is not to be dropped is the last one
\* emitted.
C7_DropIffBlank ==
  (prog = "imports" /\ pc = "rewrite") =>
    /\ Len(new_lines) = Cardinality({ i \in 1..lineno : ~Dropped(i) })
    /\ (lineno >= 1 /\ Flagged(lineno) /\ ~Blank(Remainder(lineno)))
         => new_lines[Len(new_lines)] = Remainder(lineno)

\* the rewriter has dropped one flagged line and kept the next, which had
\* content left
C7_Witness ==
  /\ prog = "imports" /\ pc = "rewrite" /\ lineno = 2
  /\ Flagged(1) /\ Blank(Remainder(1))
  /\ Flagged(2) /\ ~Blank(Remainder(2))
  /\ new_lines = << Remainder(2) >>

(***************************************************************************)
(* C8                                                                      *)
(***************************************************************************)
PackageDone == prog = "package" /\ pc = "done"

\* C8: for a file in which find_java_package_statement finds no package
\* declaration, main reports the missing package statement and nothing else
\* (no mismatch), and its result is 1.
C8_MissingNeverMismatch ==
  (PackageDone /\ package_statement = None) =>
    /\ stdout = << [path |-> 1, kind |-> "missing"] >>
    /\ result = 1

\* a file with lines but no recognized package statement, in a directory,
\* has been checked
C8_Witness ==
  /\ PackageDone /\ package_statement = None
  /\ Len(TheLines) >= 1 /\ Len(files[1].parts) >= 1
  /\ Len(stdout) = 1 /\ stdout[1].kind = "missing"

(***************************************************************************)
(* C9                                                                      *)
(***************************************************************************)
\* number of dotted components of a name: one more than its dots
NumComponents(nm) == Cardinality({ k \in 1..Len(nm) : nm[k] = "." }) + 1

\* the last n segments of a path
LastSegments(parts, n) == [k \in 1..n |-> parts[Len(parts) - n + k]]

\* C9: for a file with a declared package of n components in a directory
\* path of at least n segments: if the last n segments are the components,
\* main reports nothing; otherwise it reports exactly one mismatch, naming
\* the last n segments joined by "." as expected and the declared name as
\* actual.
C9_TrailingSegmentsDecide ==
  (PackageDone /\ package_statement # None) =>
    LET declared == package_statement.match.name
        n == NumComponents(declared)
        parts == files[1].parts
    IN  Len(parts) >= n =>
          IF Join(LastSegments(parts, n)) = declared
          THEN stdout = <<>> /\ result = 0
          ELSE /\ stdout = << [path |-> 1, kind |-> "mismatch",
                               lineno |-> package_statement.lineno,
                               expected |-> Join(LastSegments(parts, n)),
                               actual |-> declared] >>
               /\ result = 1

\* a package of two components in a longer path that ends in them: checked,
\* nothing reported
C9_Witness ==
  /\ PackageDone /\ package_statement # None
  /\ Len(files[1].parts) > NumComponents(package_statement.match.name)
  /\ Join(LastSegments(files[1].parts,
                       NumComponents(package_statement.match.name)))
       = package_statement.match.name
  /\ stdout = <<>>

(***************************************************************************)
(* C10                                                                     *)
(***************************************************************************)
\* \w+(?:\.\w+)* at position p: the position after it, 0 if it does not match
RECURSIVE DottedNameEnd(_, _)
DottedNameEnd(s, p) ==
  LET w == SkipWhile(WordChars, s, p)
  IN  IF w = p THEN 0
      ELSE IF w < Len(s) /\ s[w] = "." /\ s[w + 1] \in WordChars
           THEN DottedNameEnd(s, w + 1)
      ELSE w

\* ^\s*package\s+\w+(?:\.\w+)*\s*; : the pattern C10 describes
DescribedPackageLine(line) ==
  LET p0 == SkipWhile(SpaceChars, line, 1)
      p1 == p0 + Len(KW_PACKAGE)
      p2 == SkipWhile(SpaceChars, line, p1)
      e  == DottedNameEnd(line, p2)
      q  == SkipWhile(SpaceChars, line, e)
  IN  /\ HasLit(line, p0, KW_PACKAGE)
      /\ p2 > p1
      /\ e > 0
      /\ q <= Len(line) /\ line[q] = ";"

\* C10: find_java_package_statement returns the first line outside block
\* comments that starts, after optional whitespace, with `package <name>;`
\* where <name> has one or more dotted components, and none only if the
\* file has no such line.
C10_FirstDescribedLineReturned ==
  (prog = "package" /\ pc = "check") =>
    LET described == { i \in 1..Len(TheLines) :
                         ~Skipped(i) /\ DescribedPackageLine(TheLines[i]) }
    IN  IF described = {} THEN package_statement = None
        ELSE /\ package_statement # None
             /\ \A i \in described : package_statement.lineno + 1 <= i
             /\ package_statement.lineno + 1 \in described

(***************************************************************************)
(* C11                                                                     *)
(***************************************************************************)
\* C11: for each driver, the exit status main returns is non-zero if and
\* only if some input file produced a finding (every finding is printed).
C11_ExitStatusTellsFindings ==
  pc = "done" => ((returned # 0) <=> (stdout # <<>>))

(***************************************************************************)
(* C12                                                                     *)
(***************************************************************************)
\* a step of the import scanner's loop, and the line it reads
ScanStep ==
  prog = "imports" /\ pc = "scan" /\ pc' = "scan" /\ lineno' = lineno + 1
LineRead == disk[fi][lineno + 1]

\* the step reads a line that the scanner takes as an import declaration
ImportStep == ScanStep /\ ~inside_comment' /\ IMPORT_PATTERN(LineRead).ok

\* the table holds a live entry for ident
LiveFor(ident) ==
  \E k \in 1..Len(unused_imports) :
     RPartitionTail(unused_imports[k].match.name) = ident

\* C12: a recognized import line is emitted as DUPLICATE if and only if
\* the table holds a live entry for its identifier when it is read, and the
\* table is then left unchanged; otherwise the import is inserted as the
\* live entry and nothing is emitted.
C12_DuplicateIffLive ==
  [][ ImportStep =>
        LET match == IMPORT_PATTERN(LineRead)
        IN  IF LiveFor(RPartitionTail(match.name))
            THEN /\ yielded' = Append(yielded,
                        [match |-> match, lineno |-> lineno,
                         removal_reason |-> "DUPLICATE"])
                 /\ unused_imports' = unused_imports
            ELSE /\ yielded' = yielded
                 /\ unused_imports' = Append(unused_imports,
                        [match |-> match, lineno |-> lineno,
                         removal_reason |-> "UNUSED"]) ]_vars

\* an identifier imported, used, and imported again: the second import has
\* just been read, is the live entry, and nothing was emitted
C12_Witness ==
  /\ prog = "imports" /\ pc = "scan" /\ lineno >= 3
  /\ IsImportLine(lineno)
  /\ \E i, j \in 1..(lineno - 1) :
        /\ i < j
        /\ IsImportLine(i) /\ IdentAt(i) = IdentAt(lineno)
        /\ IsUseLine(j, IdentAt(i))
  /\ yielded = <<>>
  /\ Len(unused_imports) = 1
  /\ unused_imports[1].lineno = lineno - 1

(***************************************************************************)
(* C13                                                                     *)
(***************************************************************************)
\* C13: a line recognized as an import declaration marks no import as used:
\* every entry of the table is still there after it, the entry it introduces
\* included; and whenever a step of the scan removes an entry, the line read
\* is neither skipped nor an import line.
C13_ImportLineMarksNothingUsed ==
  [][ /\ ImportStep =>
           /\ Len(unused_imports') >= Len(unused_imports)
           /\ \A k \in 1..Len(unused_imports) :
                unused_imports'[k] = unused_imports[k]
           /\ \E k \in 1..Len(unused_imports') :
                RPartitionTail(unused_imports'[k].match.name)
                  = RPartitionTail(IMPORT_PATTERN(LineRead).name)
      /\ (ScanStep /\ \E k \in 1..Len(unused_imports) :
                         \A n \in 1..Len(unused_imports') :
                            unused_imports'[n] # unused_imports[k])
           => ~inside_comment' /\ ~IMPORT_PATTERN(LineRead).ok ]_vars

\* an import line that has the identifier of an earlier live entry as a
\* whole word, in a comment behind its semicolon, has just been read, and
\* the entry is still in the table
C13_Witness ==
  /\ prog = "imports" /\ pc = "scan" /\ lineno >= 2
  /\ IsImportLine(lineno)
  /\ \E k \in 1..Len(unused_imports) :
        /\ unused_imports[k].lineno < lineno - 1
        /\ WordSearch(RPartitionTail(unused_imports[k].match.name), JustRead)
        /\ Contains(JustRead, COMMENT_OPEN)

(***************************************************************************)
(* C14                                                                     *)
(***************************************************************************)
\* either analyzer is in its loop over the lines and has a line left to read
Scanning ==
  \/ prog = "imports" /\ pc = "scan"
  \/ prog = "package" /\ pc = "find"
LineStep == Scanning /\ lineno < Len(disk[fi])

\* the comment state after the open-check and then the close-check of line
AfterOpenCheck(inside, line) == Contains(line, COMMENT_OPEN) \/ inside
AfterCloseCheck(inside, line) ==
  AfterOpenCheck(inside, line) /\ ~Contains(line, COMMENT_CLOSE)

\* C14: in both analyzers the comment state is 'outside' before the first
\* line and each line sets it by the open-check followed by the close-check;
\* a line on which it is then 'inside' is skipped: the import table and the
\* emitted findings are unchanged, no package statement is found, and the
\* scan moves on to the next line.
C14_CommentStateOrder ==
  /\ []((Scanning /\ lineno = 0) => ~inside_comment)
  /\ [][ LineStep =>
           /\ inside_comment' = AfterCloseCheck(inside_comment, LineRead)
           /\ inside_comment' =>
                /\ unused_imports' = unused_imports
                /\ yielded' = yielded
                /\ package_statement' = package_statement
                /\ pc' = pc
                /\ lineno' = lineno + 1 ]_vars

\* the import scanner has skipped, inside a comment left open by an earlier
\* line, a line that has an import declaration in it and a line that has
\* the identifier of a live entry in it
C14_Witness ==
  /\ prog = "imports" /\ pc = "scan" /\ lineno >= 3
  /\ inside_comment
  /\ ~Contains(JustRead, COMMENT_OPEN)
  /\ Len(unused_imports) = 1 /\ yielded = <<>>
  /\ unused_imports[1].lineno = 0
  /\ \/ IMPORT_PATTERN(JustRead).ok
     \/ WordSearch(RPartitionTail(unused_imports[1].match.name), JustRead)

(***************************************************************************)
(* C15                                                                     *)
(***************************************************************************)
\* the line numbers 1..n that are not in S, in increasing order
IndicesWithout(n, S) == SelectSeq([i \in 1..n |-> i], LAMBDA i : i \notin S)

\* C15: at every position of the rewriter's loop the lines emitted so far
\* are the lines read so far, in their order, with only flagged lines
\* dropped or altered: every line without a finding is emitted exactly as
\* read, and no more lines are emitted than were read.
C15_UnflaggedLinesKept ==
  (prog = "imports" /\ pc = "rewrite") =>
    /\ Len(new_lines) <= lineno
    /\ \E S \in SUBSET { i \in 1..lineno : Flagged(i) } :
          LET idx == IndicesWithout(lineno, S)
          IN  /\ Len(new_lines) = Len(idx)
              /\ \A k \in 1..Len(idx) :
                    ~Flagged(idx[k]) => new_lines[k] = TheLines[idx[k]]

\* the rewriter has dropped a flagged first line and emitted an empty line
\* and a whitespace-only line behind it as they were read
C15_Witness ==
  /\ prog = "imports" /\ pc = "rewrite" /\ lineno = 3
  /\ Dropped(1) /\ ~Flagged(2) /\ ~Flagged(3)
  /\ Blank(TheLines[2]) /\ Blank(TheLines[3])
  /\ TheLines[2] # TheLines[3]
  /\ new_lines = << TheLines[2], TheLines[3] >>

(***************************************************************************)
(* C16                                                                     *)
(***************************************************************************)
\* line i behind the span that IMPORT_PATTERN matched at its start
BehindMatch(i) ==
  SubSeq(TheLines[i], Len(FindingsAt(i)[1].match.g0) + 1, Len(TheLines[i]))

\* C16: a flagged line that is kept is emitted without the import statement
\* matched at its start and with every other character preserved in order,
\* also when the text of the import statement occurs again on the line.
C16_OnlyMatchedSpanRemoved ==
  (/\ prog = "imports" /\ pc = "rewrite"
   /\ lineno >= 1 /\ Flagged(lineno) /\ ~Dropped(lineno))
    => new_lines[Len(new_lines)] = BehindMatch(lineno)

(***************************************************************************)
(* C17                                                                     *)
(***************************************************************************)
\* the findings of the current file that main has printed
PrintedFor(k) == SelectSeq(stdout, LAMBDA r : r.path = k)

\* the order in which main goes through its steps for one file, and on to
\* the next file or to its return
StepOrder ==
  { <<"scan", "print">>, <<"print", "rewrite">>, <<"print", "scan">>,
    <<"print", "return">>, <<"rewrite", "scan">>, <<"rewrite", "return">>,
    <<"return", "done">> }

\* C17: the import driver takes its steps for a file in the order scan,
\* print, compute the new lines, write.  The new lines are computed only
\* after the complete list of findings was printed; a file is written only
\* in fix mode, with at least one finding, and only once all of its new
\* lines are computed, and then it receives exactly these lines.  Without
\* fix mode no file is ever written.
C17_ScanPrintComputeWrite ==
  /\ []((prog = "imports" /\ pc = "rewrite") =>
          /\ unnecessary_imports = find_unnecessary_imports(disk[fi])
          /\ Len(PrintedFor(fi)) = Len(unnecessary_imports))
  /\ []((prog = "imports" /\ ~fix) =>
          written = <<>> /\ disk[1] = TheLines)
  /\ [][ /\ pc' # pc => <<pc, pc'>> \in StepOrder
         /\ (written' # written \/ disk' # disk) =>
              /\ pc = "rewrite" /\ lineno = Len(disk[fi])
              /\ fix /\ unnecessary_imports # <<>>
              /\ written' = Append(written, fi)
              /\ disk' = [disk EXCEPT ![fi] = new_lines] ]_vars

\* main has printed the findings of a file and then written it
C17_Witness ==
  /\ prog = "imports" /\ pc = "done" /\ fix
  /\ written = <<1>>
  /\ stdout # <<>>
  /\ disk[1] # TheLines
  /\ disk[1] = new_lines

(***************************************************************************)
(* C18                                                                     *)
(***************************************************************************)
\* what main prints for file k when given that file alone as file k
AloneImports(k) == find_unnecessary_imports(files[k].lines)
AlonePackage(k) ==
  CheckFile(k, find_java_package_statement(files[k].lines), files[k].parts)

\* the printed findings recs are those of the imports found
SameFindings(recs, imports) ==
  /\ Len(recs) = Len(imports)
  /\ \A n \in 1..Len(recs) :
        /\ recs[n].lineno = imports[n].lineno
        /\ recs[n].name = imports[n].match.name
        /\ (recs[n].removal_reason = "Unused")
             <=> (imports[n].removal_reason = "UNUSED")

\* C18: the files of one invocation are processed one at a time in input
\* order, and the findings of each file are those of a run on its content
\* (and path) alone, whatever the file before it left behind: what either
\* analyzer returns for the current file is what it returns for that file
\* with fresh state, and the output is the findings of the first file
\* followed by those of the second.
C18_FilesIndependent ==
  /\ (prog = "imports" /\ pc = "print")
       => unnecessary_imports = AloneImports(fi)
  /\ (prog = "package" /\ pc = "check")
       => package_statement = find_java_package_statement(files[fi].lines)
  /\ (prog = "imports" /\ pc = "done")
       => /\ stdout = PrintedFor(1) \o PrintedFor(2)
          /\ \A k \in 1..Len(files) :
                SameFindings(PrintedFor(k), AloneImports(k))
  /\ (prog = "package" /\ pc = "done")
       => stdout = AlonePackage(1) \o AlonePackage(2)

\* the first file ended inside an unclosed comment and with a live entry for
\* an identifier; the second file imports that identifier in its first line,
\* and the scan of the second file has reported that import as unused
C18_Witness ==
  /\ prog = "imports" /\ pc = "print" /\ fi = 2
  /\ InsideAfter(files[1].lines, Len(files[1].lines))
  /\ Len(AloneImports(1)) = 1
  /\ AloneImports(1)[1].removal_reason = "UNUSED"
  /\ files[2].lines # <<>>
  /\ IMPORT_PATTERN(files[2].lines[1]).ok
  /\ Len(unnecessary_imports) = 1
  /\ unnecessary_imports[1].removal_reason = "UNUSED"
  /\ unnecessary_imports[1].lineno = 0
  /\ unnecessary_imports[1].match.name = AloneImports(1)[1].match.name

(***************************************************************************)
(* C19                                                                     *)
(***************************************************************************)
\* line i is a recognized import that was not a duplicate when it was read,
\* and no line of i+1..n read as an ordinary line has its identifier as a
\* whole word
RECURSIVE LiveAt(_, _)
LiveAt(i, n) ==
  /\ IsImportLine(i)
  /\ \A j \in (i + 1)..n : ~IsUseLine(j, IdentAt(i))
  /\ \A h \in 1..(i - 1) :
        ~(LiveAt(h, i - 1) /\ IdentAt(h) = IdentAt(i))

\* the three outcomes of a recognized import line i
IsDuplicate(i) ==
  \E h \in 1..(i - 1) : LiveAt(h, i - 1) /\ IdentAt(h) = IdentAt(i)
IsUsed(i) ==
  ~IsDuplicate(i) /\ \E j \in (i + 1)..Len(TheLines) : IsUseLine(j, IdentAt(i))

\* C19: at every position of the scan the table has at most one entry per
\* identifier, and its entries are exactly the recognized non-duplicate
\* imports of earlier lines with no use of their identifier on an ordinary
\* line since; at the end of the file, when the list of findings is complete
\* and about to be printed, the UNUSED findings are exactly the
\* entries left, and every recognized import line has one outcome: one
\* DUPLICATE finding, one UNUSED finding, or used and no finding.
C19_ImportTableInvariant ==
  /\ (prog = "imports" /\ pc = "scan") =>
       /\ \A k, n \in 1..Len(unused_imports) :
             identifier(unused_imports[k]) = identifier(unused_imports[n])
               => k = n
       /\ { unused_imports[k].lineno + 1 : k \in 1..Len(unused_imports) }
            = { i \in 1..lineno : LiveAt(i, lineno) }
       /\ \A k \in 1..Len(unused_imports) :
             /\ unused_imports[k].match
                  = IMPORT_PATTERN(TheLines[unused_imports[k].lineno + 1])
             /\ unused_imports[k].removal_reason = "UNUSED"
  /\ (prog = "imports" /\ pc = "print") =>
       \A i \in 1..Len(TheLines) :
          /\ Len(FindingsAt(i)) <= 1
          /\ ReasonsAt(i) = {"UNUSED"} <=> LiveAt(i, Len(TheLines))
          /\ ReasonsAt(i) = {"DUPLICATE"}
               <=> (IsImportLine(i) /\ IsDuplicate(i))
          /\ ReasonsAt(i) = {} <=> (~IsImportLine(i) \/ IsUsed(i))

\* an import that was used, and a later import of the same identifier that
\* is reported as unused at the end of the file
C19_Witness ==
  /\ prog = "imports" /\ pc = "print"
  /\ Len(TheLines) = 3
  /\ IsImportLine(1) /\ IsUsed(1)
  /\ IsUseLine(2, IdentAt(1))
  /\ IsImportLine(3) /\ IdentAt(3) = IdentAt(1)
  /\ LiveAt(3, 3)
  /\ Len(unnecessary_imports) = 1
  /\ unnecessary_imports[1].lineno = 2
  /\ unnecessary_imports[1].removal_reason = "UNUSED"

=============================================================================
